---- MODULE Spec2Model ----
(***************************************************************************)
(* Model of MethodAccessController (src/main/MethodAccessController.js):   *)
(* a controller holds a security policy (an array of entries, each with    *)
(* three RegExp matchers and a strategy) and answers permits / denies /    *)
(* grants for a request {role, clazz, method, data}.                       *)
(*                                                                         *)
(* Names are sequences of letters so that RegExp.test can be modelled as   *)
(* a search in the name.  "M" abbreviates Manager, <<"T","M">> is a role   *)
(* name that contains "M" as a proper substring, "F"/"B" are the classes   *)
(* Foo/Bar and "b"/"s" the methods bar/snafu of the unit tests.            *)
(***************************************************************************)
EXTENDS Integers, Sequences, FiniteSets, TLC

\* ------------------------------------------------------------------ bounds
MaxPolicy == 2      \* longest policy passed to the constructor
MaxLong == 3        \* longest policy of entries that match every request
MaxRoles == 2       \* longest role array of a request

\* ------------------------------------------------------------------ names
RoleM == <<"M">>
RoleTM == <<"T", "M">>
RoleNames == {RoleM, RoleTM}
ClassFoo == <<"F">>
ClassBar == <<"B">>
MethodBar == <<"b">>
MethodSnafu == <<"s">>
Targets == {<<ClassFoo, MethodBar>>, <<ClassBar, MethodBar>>, <<ClassFoo, MethodSnafu>>}
DataValues == {1, 2}    \* data.dayOfMonth

\* ------------------------------------------------------------- JS values
\* A strategy value, tagged by what JavaScript's typeof yields for it.
BoolValue(b) == [type |-> "boolean", bool |-> b, ref |-> "-"]
FnValue(f) == [type |-> "function", bool |-> FALSE, ref |-> f]
StrValue(s) == [type |-> "string", bool |-> FALSE, ref |-> s]
ObjValue == [type |-> "object", bool |-> FALSE, ref |-> "{}"]

\* The outcome of a call: a returned boolean or a thrown error.
Ret(b) == [kind |-> "return", val |-> b, err |-> "-"]
Throw(e) == [kind |-> "throw", val |-> FALSE, err |-> e]

E_STRATEGY_NOT_A_FUNCTION == "E_STRATEGY_NOT_A_FUNCTION"
MODULE_NOT_FOUND == "MODULE_NOT_FOUND"
E_BOOM == "E_BOOM"

\* An evaluation yields an outcome and the strategy resolutions (require)
\* and invocations (call) it performed, in order.
Result(o, l) == [out |-> o, log |-> l]
RequireEvent(path) ==
    [ev |-> "require", what |-> path, role |-> <<>>, clazz |-> <<>>,
     method |-> <<>>, data |-> 0]
CallEvent(f, role, clazz, method, data) ==
    [ev |-> "call", what |-> f, role |-> role, clazz |-> clazz,
     method |-> method, data |-> data]

\* ---------------------------------------------------------------- RegExp
\* /^.*$/ ("all"), /^lit$/ ("exact") and the unanchored /lit/ ("contains").
ReAll == [kind |-> "all", lit |-> <<>>]
ReExact(s) == [kind |-> "exact", lit |-> s]
ReContains(s) == [kind |-> "contains", lit |-> s]

\* s occurs in t as a contiguous run of letters
IsSubstring(s, t) ==
    \E i \in 0..(Len(t) - Len(s)) : SubSeq(t, i + 1, i + Len(s)) = s

\* RegExp.prototype.test of a pattern compiled with ^ and $ around it
testAnchored(re, s) ==
    CASE re.kind = "all" -> TRUE
      [] re.kind = "exact" -> s = re.lit
      [] re.kind = "contains" -> s = re.lit

\* RegExp.prototype.test
test(re, s) ==
    CASE re.kind = "all" -> TRUE
      [] re.kind = "exact" -> s = re.lit
      [] re.kind = "contains" -> IsSubstring(re.lit, s)

\* ------------------------------------------------------ dynamic strategies
\* The strategy functions of the unit tests, as deterministic functions of
\* {role, clazz, method, data}; "oddDay" is a second strategy, of any role
\* on odd days, and "boom" is a strategy that throws.
ApplyStrategy(f, role, clazz, method, data) ==
    CASE f = "evenDay" -> Ret(role = RoleM /\ data % 2 = 0)
      [] f = "oddDay" -> Ret(data % 2 = 1)
      [] f = "boom" -> Throw(E_BOOM)

\* Node's require() of a strategy given by module path.
require(path) ==
    CASE path = "./even-day" -> Ret(FnValue("evenDay"))
      [] path = "./yes" -> Ret(BoolValue(TRUE))
      [] path = "./policy.json" -> Ret(ObjValue)
      [] OTHER -> Throw(MODULE_NOT_FOUND)

\* ---------------------------------------------------------------- policy
Entry(r, c, m, s) == [roles |-> r, classes |-> c, methods |-> m, strategy |-> s]

\* default-security-policy.js
DefaultPolicyValue == <<Entry(ReAll, ReAll, ReAll, BoolValue(TRUE))>>

Strategies ==
    {BoolValue(TRUE), BoolValue(FALSE), FnValue("evenDay"),
     StrValue("./even-day"), StrValue("./yes"), StrValue("./policy.json"),
     StrValue("./missing")}

\* The entries policies are built from.
EntryPool ==
    {Entry(ReAll, ReAll, ReAll, s) : s \in Strategies}
    \cup {Entry(ReExact(RoleM), ReAll, ReAll, BoolValue(FALSE)),
          Entry(ReExact(RoleTM), ReAll, ReAll, FnValue("boom")),
          Entry(ReExact(RoleTM), ReExact(ClassFoo), ReExact(MethodBar), BoolValue(TRUE)),
          Entry(ReContains(RoleM), ReAll, ReAll, BoolValue(TRUE)),
          Entry(ReAll, ReAll, ReAll, FnValue("oddDay"))}

\* The entries longer policies are built from: they match every request.
LongPool ==
    {Entry(ReAll, ReAll, ReAll, s) :
        s \in {BoolValue(TRUE), BoolValue(FALSE), FnValue("evenDay"), FnValue("boom")}}

Policies ==
    UNION {[1..k -> EntryPool] : k \in 0..MaxPolicy}
    \cup UNION {[1..k -> LongPool] : k \in 0..MaxLong}

\* The constructor's argument: undefined, or a policy array.
Undefined == [given |-> FALSE, list |-> <<>>]
Given(p) == [given |-> TRUE, list |-> p]
CtorArgs == {Undefined} \cup {Given(p) : p \in Policies}

\* --------------------------------------------------------------- requests
\* role is a string (isArray = FALSE, names holds it) or an array of strings.
SingleRole(r) == [isArray |-> FALSE, names |-> <<r>>]
ArrayRole(rs) == [isArray |-> TRUE, names |-> rs]
RoleValues ==
    {SingleRole(r) : r \in RoleNames}
    \cup {ArrayRole(rs) : rs \in UNION {[1..k -> RoleNames] : k \in 0..MaxRoles}}

Request(role, clazz, method, data) ==
    [role |-> role, clazz |-> clazz, method |-> method, data |-> data]
Requests ==
    {Request(r, t[1], t[2], d) : r \in RoleValues, t \in Targets, d \in DataValues}

\* ------------------------------------------------------------- controller
\* _findEntries that forgets the methods matcher
_findEntriesNoMethod(pol, role, clazz, method) ==
    SelectSeq(pol, LAMBDA it : test(it.roles, role) /\ test(it.classes, clazz))

\* _findEntries with Array.prototype.find in place of filter
_findEntriesFirst(pol, role, clazz, method) ==
    LET found == SelectSeq(pol, LAMBDA it :
            test(it.roles, role) /\ test(it.classes, clazz) /\ test(it.methods, method))
    IN IF found = <<>> THEN <<>> ELSE <<Head(found)>>

\* _findEntries: the entries whose three matchers all match, in policy order
_findEntries(pol, role, clazz, method) ==
    SelectSeq(pol, LAMBDA it :
        test(it.roles, role) /\ test(it.classes, clazz) /\ test(it.methods, method))

\* _interrogate where the first boolean literal decides: it answers
\* (strategy = permit) at once instead of continuing past the opposite literal
RECURSIVE _interrogateFirstLiteral(_, _, _, _, _, _)
_interrogateFirstLiteral(entries, role, clazz, method, data, permit) ==
    IF entries = <<>> THEN Result(Ret(FALSE), <<>>)
    ELSE
      LET it == Head(entries)
          next == _interrogateFirstLiteral(Tail(entries), role, clazz, method, data, permit)
      IN
      IF it.strategy.type = "boolean"
      THEN Result(Ret(it.strategy.bool = permit), <<>>)
      ELSE
        LET isStr == it.strategy.type = "string"
            req == IF isStr THEN require(it.strategy.ref) ELSE Ret(it.strategy)
            reqLog == IF isStr THEN <<RequireEvent(it.strategy.ref)>> ELSE <<>>
        IN
        IF req.kind = "throw" THEN Result(req, reqLog)
        ELSE
          LET strategy == req.val IN
          IF strategy.type = "function"
          THEN
            LET permitted == ApplyStrategy(strategy.ref, role, clazz, method, data)
                called == reqLog \o <<CallEvent(strategy.ref, role, clazz, method, data)>>
            IN
            IF permitted.kind = "throw" THEN Result(permitted, called)
            ELSE IF permit /\ permitted.val THEN Result(Ret(TRUE), called)
            ELSE IF ~permit /\ ~permitted.val THEN Result(Ret(FALSE), called)
            ELSE Result(next.out, called \o next.log)
          ELSE Result(Throw(E_STRATEGY_NOT_A_FUNCTION), reqLog)

\* _interrogate that skips a strategy that is not a function instead of
\* throwing
RECURSIVE _interrogateSkipping(_, _, _, _, _, _)
_interrogateSkipping(entries, role, clazz, method, data, permit) ==
    IF entries = <<>> THEN Result(Ret(FALSE), <<>>)
    ELSE
      LET it == Head(entries)
          next == _interrogateSkipping(Tail(entries), role, clazz, method, data, permit)
      IN
      IF it.strategy.type = "boolean"
      THEN IF it.strategy.bool = permit THEN Result(Ret(TRUE), <<>>) ELSE next
      ELSE
        LET isStr == it.strategy.type = "string"
            req == IF isStr THEN require(it.strategy.ref) ELSE Ret(it.strategy)
            reqLog == IF isStr THEN <<RequireEvent(it.strategy.ref)>> ELSE <<>>
        IN
        IF req.kind = "throw" THEN Result(req, reqLog)
        ELSE
          LET strategy == req.val IN
          IF strategy.type = "function"
          THEN
            LET permitted == ApplyStrategy(strategy.ref, role, clazz, method, data)
                called == reqLog \o <<CallEvent(strategy.ref, role, clazz, method, data)>>
            IN
            IF permitted.kind = "throw" THEN Result(permitted, called)
            ELSE IF permit /\ permitted.val THEN Result(Ret(TRUE), called)
            ELSE IF ~permit /\ ~permitted.val THEN Result(Ret(FALSE), called)
            ELSE Result(next.out, called \o next.log)
          ELSE Result(next.out, reqLog \o next.log)

\* _interrogate that catches what a strategy throws and takes it for a
\* falsy result
RECURSIVE _interrogateSwallowing(_, _, _, _, _, _)
_interrogateSwallowing(entries, role, clazz, method, data, permit) ==
    IF entries = <<>> THEN Result(Ret(FALSE), <<>>)
    ELSE
      LET it == Head(entries)
          next == _interrogateSwallowing(Tail(entries), role, clazz, method, data, permit)
      IN
      IF it.strategy.type = "boolean"
      THEN IF it.strategy.bool = permit THEN Result(Ret(TRUE), <<>>) ELSE next
      ELSE
        LET isStr == it.strategy.type = "string"
            req == IF isStr THEN require(it.strategy.ref) ELSE Ret(it.strategy)
            reqLog == IF isStr THEN <<RequireEvent(it.strategy.ref)>> ELSE <<>>
        IN
        IF req.kind = "throw" THEN Result(req, reqLog)
        ELSE
          LET strategy == req.val IN
          IF strategy.type = "function"
          THEN
            LET applied == ApplyStrategy(strategy.ref, role, clazz, method, data)
                permitted == IF applied.kind = "throw" THEN Ret(FALSE) ELSE applied
                called == reqLog \o <<CallEvent(strategy.ref, role, clazz, method, data)>>
            IN
            IF permitted.kind = "throw" THEN Result(permitted, called)
            ELSE IF permit /\ permitted.val THEN Result(Ret(TRUE), called)
            ELSE IF ~permit /\ ~permitted.val THEN Result(Ret(FALSE), called)
            ELSE Result(next.out, called \o next.log)
          ELSE Result(Throw(E_STRATEGY_NOT_A_FUNCTION), reqLog)

\* _interrogate that calls strategy({ role, clazz, method }) without data
RECURSIVE _interrogateNoData(_, _, _, _, _, _)
_interrogateNoData(entries, role, clazz, method, data, permit) ==
    IF entries = <<>> THEN Result(Ret(FALSE), <<>>)
    ELSE
      LET it == Head(entries)
          next == _interrogateNoData(Tail(entries), role, clazz, method, data, permit)
      IN
      IF it.strategy.type = "boolean"
      THEN IF it.strategy.bool = permit THEN Result(Ret(TRUE), <<>>) ELSE next
      ELSE
        LET isStr == it.strategy.type = "string"
            req == IF isStr THEN require(it.strategy.ref) ELSE Ret(it.strategy)
            reqLog == IF isStr THEN <<RequireEvent(it.strategy.ref)>> ELSE <<>>
        IN
        IF req.kind = "throw" THEN Result(req, reqLog)
        ELSE
          LET strategy == req.val IN
          IF strategy.type = "function"
          THEN
            LET permitted == ApplyStrategy(strategy.ref, role, clazz, method, 0)
                called == reqLog \o <<CallEvent(strategy.ref, role, clazz, method, 0)>>
            IN
            IF permitted.kind = "throw" THEN Result(permitted, called)
            ELSE IF permit /\ permitted.val THEN Result(Ret(TRUE), called)
            ELSE IF ~permit /\ ~permitted.val THEN Result(Ret(FALSE), called)
            ELSE Result(next.out, called \o next.log)
          ELSE Result(Throw(E_STRATEGY_NOT_A_FUNCTION), reqLog)

\* _interrogate whose deny mode takes a strategy's false for a denial
RECURSIVE _interrogateDenyOnFalse(_, _, _, _, _, _)
_interrogateDenyOnFalse(entries, role, clazz, method, data, permit) ==
    IF entries = <<>> THEN Result(Ret(FALSE), <<>>)
    ELSE
      LET it == Head(entries)
          next == _interrogateDenyOnFalse(Tail(entries), role, clazz, method, data, permit)
      IN
      IF it.strategy.type = "boolean"
      THEN IF it.strategy.bool = permit THEN Result(Ret(TRUE), <<>>) ELSE next
      ELSE
        LET isStr == it.strategy.type = "string"
            req == IF isStr THEN require(it.strategy.ref) ELSE Ret(it.strategy)
            reqLog == IF isStr THEN <<RequireEvent(it.strategy.ref)>> ELSE <<>>
        IN
        IF req.kind = "throw" THEN Result(req, reqLog)
        ELSE
          LET strategy == req.val IN
          IF strategy.type = "function"
          THEN
            LET permitted == ApplyStrategy(strategy.ref, role, clazz, method, data)
                called == reqLog \o <<CallEvent(strategy.ref, role, clazz, method, data)>>
            IN
            IF permitted.kind = "throw" THEN Result(permitted, called)
            ELSE IF permit /\ permitted.val THEN Result(Ret(TRUE), called)
            ELSE IF ~permit /\ ~permitted.val THEN Result(Ret(TRUE), called)
            ELSE Result(next.out, called \o next.log)
          ELSE Result(Throw(E_STRATEGY_NOT_A_FUNCTION), reqLog)

\* _interrogate whose permit mode stops at a strategy's false
RECURSIVE _interrogateBlockOnFalse(_, _, _, _, _, _)
_interrogateBlockOnFalse(entries, role, clazz, method, data, permit) ==
    IF entries = <<>> THEN Result(Ret(FALSE), <<>>)
    ELSE
      LET it == Head(entries)
          next == _interrogateBlockOnFalse(Tail(entries), role, clazz, method, data, permit)
      IN
      IF it.strategy.type = "boolean"
      THEN IF it.strategy.bool = permit THEN Result(Ret(TRUE), <<>>) ELSE next
      ELSE
        LET isStr == it.strategy.type = "string"
            req == IF isStr THEN require(it.strategy.ref) ELSE Ret(it.strategy)
            reqLog == IF isStr THEN <<RequireEvent(it.strategy.ref)>> ELSE <<>>
        IN
        IF req.kind = "throw" THEN Result(req, reqLog)
        ELSE
          LET strategy == req.val IN
          IF strategy.type = "function"
          THEN
            LET permitted == ApplyStrategy(strategy.ref, role, clazz, method, data)
                called == reqLog \o <<CallEvent(strategy.ref, role, clazz, method, data)>>
            IN
            IF permitted.kind = "throw" THEN Result(permitted, called)
            ELSE IF permit /\ permitted.val THEN Result(Ret(TRUE), called)
            ELSE IF ~permitted.val THEN Result(Ret(FALSE), called)
            ELSE Result(next.out, called \o next.log)
          ELSE Result(Throw(E_STRATEGY_NOT_A_FUNCTION), reqLog)

\* _interrogate that takes a boolean exported by a required module for a
\* literal strategy
RECURSIVE _interrogateResolvedLiteral(_, _, _, _, _, _)
_interrogateResolvedLiteral(entries, role, clazz, method, data, permit) ==
    IF entries = <<>> THEN Result(Ret(FALSE), <<>>)
    ELSE
      LET it == Head(entries)
          next == _interrogateResolvedLiteral(Tail(entries), role, clazz, method, data, permit)
      IN
      IF it.strategy.type = "boolean"
      THEN IF it.strategy.bool = permit THEN Result(Ret(TRUE), <<>>) ELSE next
      ELSE
        LET isStr == it.strategy.type = "string"
            req == IF isStr THEN require(it.strategy.ref) ELSE Ret(it.strategy)
            reqLog == IF isStr THEN <<RequireEvent(it.strategy.ref)>> ELSE <<>>
        IN
        IF req.kind = "throw" THEN Result(req, reqLog)
        ELSE
          LET strategy == req.val IN
          IF strategy.type = "function"
          THEN
            LET permitted == ApplyStrategy(strategy.ref, role, clazz, method, data)
                called == reqLog \o <<CallEvent(strategy.ref, role, clazz, method, data)>>
            IN
            IF permitted.kind = "throw" THEN Result(permitted, called)
            ELSE IF permit /\ permitted.val THEN Result(Ret(TRUE), called)
            ELSE IF ~permit /\ ~permitted.val THEN Result(Ret(FALSE), called)
            ELSE Result(next.out, called \o next.log)
          ELSE IF strategy.type = "boolean"
          THEN IF strategy.bool = permit THEN Result(Ret(TRUE), reqLog)
               ELSE Result(next.out, reqLog \o next.log)
          ELSE Result(Throw(E_STRATEGY_NOT_A_FUNCTION), reqLog)

\* _interrogate that goes through the entries left after the literal that
\* decides
RECURSIVE _interrogateEager(_, _, _, _, _, _)
_interrogateEager(entries, role, clazz, method, data, permit) ==
    IF entries = <<>> THEN Result(Ret(FALSE), <<>>)
    ELSE
      LET it == Head(entries)
          next == _interrogateEager(Tail(entries), role, clazz, method, data, permit)
      IN
      IF it.strategy.type = "boolean"
      THEN IF it.strategy.bool = permit
           THEN Result(IF next.out.kind = "throw" THEN next.out ELSE Ret(TRUE), next.log)
           ELSE next
      ELSE
        LET isStr == it.strategy.type = "string"
            req == IF isStr THEN require(it.strategy.ref) ELSE Ret(it.strategy)
            reqLog == IF isStr THEN <<RequireEvent(it.strategy.ref)>> ELSE <<>>
        IN
        IF req.kind = "throw" THEN Result(req, reqLog)
        ELSE
          LET strategy == req.val IN
          IF strategy.type = "function"
          THEN
            LET permitted == ApplyStrategy(strategy.ref, role, clazz, method, data)
                called == reqLog \o <<CallEvent(strategy.ref, role, clazz, method, data)>>
            IN
            IF permitted.kind = "throw" THEN Result(permitted, called)
            ELSE IF permit /\ permitted.val THEN Result(Ret(TRUE), called)
            ELSE IF ~permit /\ ~permitted.val THEN Result(Ret(FALSE), called)
            ELSE Result(next.out, called \o next.log)
          ELSE Result(Throw(E_STRATEGY_NOT_A_FUNCTION), reqLog)

\* _interrogate: walk the entries in order in permit or deny mode
RECURSIVE _interrogate(_, _, _, _, _, _)
_interrogate(entries, role, clazz, method, data, permit) ==
    IF entries = <<>> THEN Result(Ret(FALSE), <<>>)
    ELSE
      LET it == Head(entries)
          next == _interrogate(Tail(entries), role, clazz, method, data, permit)
      IN
      IF it.strategy.type = "boolean"
      THEN IF it.strategy.bool = permit THEN Result(Ret(TRUE), <<>>) ELSE next
      ELSE
        LET isStr == it.strategy.type = "string"
            req == IF isStr THEN require(it.strategy.ref) ELSE Ret(it.strategy)
            reqLog == IF isStr THEN <<RequireEvent(it.strategy.ref)>> ELSE <<>>
        IN
        IF req.kind = "throw" THEN Result(req, reqLog)
        ELSE
          LET strategy == req.val IN
          IF strategy.type = "function"
          THEN
            LET permitted == ApplyStrategy(strategy.ref, role, clazz, method, data)
                called == reqLog \o <<CallEvent(strategy.ref, role, clazz, method, data)>>
            IN
            IF permitted.kind = "throw" THEN Result(permitted, called)
            ELSE IF permit /\ permitted.val THEN Result(Ret(TRUE), called)
            ELSE IF ~permit /\ ~permitted.val THEN Result(Ret(FALSE), called)
            ELSE Result(next.out, called \o next.log)
          ELSE Result(Throw(E_STRATEGY_NOT_A_FUNCTION), reqLog)

_permits(entries, role, clazz, method, data) ==
    _interrogate(entries, role, clazz, method, data, TRUE)

_denies(entries, role, clazz, method, data) ==
    _interrogate(entries, role, clazz, method, data, FALSE)

\* a look at the first element only in place of includes(true)
includesFirst(vals) == vals # <<>> /\ vals[1]

\* Array.prototype.every in place of includes(true)
includesEvery(vals) == \A i \in 1..Len(vals) : vals[i]

\* Array.prototype.includes(true) on an array of booleans
includesTrue(vals) == \E i \in 1..Len(vals) : vals[i]

\* The result of role.map(...): the values mapped so far, the log, and the
\* error that ended the map early, if any.
MapResult(e, v, l) == [out |-> e, vals |-> v, log |-> l]

RECURSIVE denies(_, _)
RECURSIVE permits(_, _)
RECURSIVE mapDenies(_, _, _)
RECURSIVE mapPermits(_, _, _)

\* the denies of the roles with Array.prototype.some: it stops at the first
\* role that is denied
RECURSIVE mapDeniesSome(_, _, _)
mapDeniesSome(pol, names, req) ==
    IF names = <<>> THEN MapResult(Ret(TRUE), <<>>, <<>>)
    ELSE
      LET r == denies(pol, Request(SingleRole(Head(names)), req.clazz, req.method, req.data)) IN
      IF r.out.kind = "throw" THEN MapResult(r.out, <<>>, r.log)
      ELSE IF r.out.val THEN MapResult(Ret(TRUE), <<TRUE>>, r.log)
      ELSE
        LET rest == mapDeniesSome(pol, Tail(names), req) IN
        MapResult(rest.out, <<r.out.val>> \o rest.vals, r.log \o rest.log)

\* role.map(it => this.denies({ role: it, clazz, method, data }))
mapDenies(pol, names, req) ==
    IF names = <<>> THEN MapResult(Ret(TRUE), <<>>, <<>>)
    ELSE
      LET r == denies(pol, Request(SingleRole(Head(names)), req.clazz, req.method, req.data)) IN
      IF r.out.kind = "throw" THEN MapResult(r.out, <<>>, r.log)
      ELSE
        LET rest == mapDenies(pol, Tail(names), req) IN
        MapResult(rest.out, <<r.out.val>> \o rest.vals, r.log \o rest.log)

\* role.map(it => this.permits({ role: it, clazz, method, data }))
mapPermits(pol, names, req) ==
    IF names = <<>> THEN MapResult(Ret(TRUE), <<>>, <<>>)
    ELSE
      LET r == permits(pol, Request(SingleRole(Head(names)), req.clazz, req.method, req.data)) IN
      IF r.out.kind = "throw" THEN MapResult(r.out, <<>>, r.log)
      ELSE
        LET rest == mapPermits(pol, Tail(names), req) IN
        MapResult(rest.out, <<r.out.val>> \o rest.vals, r.log \o rest.log)

\* denies whose array branch asks that every role be denied
deniesEvery(pol, req) ==
    IF req.role.isArray
    THEN
      LET results == mapDenies(pol, req.role.names, req) IN
      IF results.out.kind = "throw" THEN Result(results.out, results.log)
      ELSE Result(Ret(results.vals # <<>> /\ \A i \in 1..Len(results.vals) : results.vals[i]),
                  results.log)
    ELSE
      LET role == req.role.names[1] IN
      _denies(_findEntries(pol, role, req.clazz, req.method),
              role, req.clazz, req.method, req.data)

\* MethodAccessController.denies
denies(pol, req) ==
    IF req.role.isArray
    THEN
      LET results == mapDenies(pol, req.role.names, req) IN
      IF results.out.kind = "throw" THEN Result(results.out, results.log)
      ELSE Result(Ret(includesTrue(results.vals)), results.log)
    ELSE
      LET role == req.role.names[1] IN
      _denies(_findEntries(pol, role, req.clazz, req.method),
              role, req.clazz, req.method, req.data)

\* permits whose array branch asks that every role be permitted
permitsEvery(pol, req) ==
    IF req.role.isArray
    THEN
      LET d == mapDenies(pol, req.role.names, req) IN
      IF d.out.kind = "throw" THEN Result(d.out, d.log)
      ELSE IF includesTrue(d.vals) THEN Result(Ret(FALSE), d.log)
      ELSE
        LET p == mapPermits(pol, req.role.names, req) IN
        IF p.out.kind = "throw" THEN Result(p.out, d.log \o p.log)
        ELSE Result(Ret(p.vals # <<>> /\ \A i \in 1..Len(p.vals) : p.vals[i]),
                    d.log \o p.log)
    ELSE
      LET role == req.role.names[1]
          entries == _findEntries(pol, role, req.clazz, req.method)
          d == _denies(entries, role, req.clazz, req.method, req.data)
      IN
      IF d.out.kind = "throw" THEN d
      ELSE IF d.out.val THEN Result(Ret(FALSE), d.log)
      ELSE
        LET p == _permits(entries, role, req.clazz, req.method, req.data) IN
        Result(p.out, d.log \o p.log)

\* permits without the check of _denies / denies
permitsUnchecked(pol, req) ==
    IF req.role.isArray
    THEN
      LET p == mapPermits(pol, req.role.names, req) IN
      IF p.out.kind = "throw" THEN Result(p.out, p.log)
      ELSE Result(Ret(includesTrue(p.vals)), p.log)
    ELSE
      LET role == req.role.names[1] IN
      _permits(_findEntries(pol, role, req.clazz, req.method),
               role, req.clazz, req.method, req.data)

\* permits that evaluates _permits before _denies
permitsPermitFirst(pol, req) ==
    IF req.role.isArray
    THEN
      LET d == mapDenies(pol, req.role.names, req) IN
      IF d.out.kind = "throw" THEN Result(d.out, d.log)
      ELSE IF includesTrue(d.vals) THEN Result(Ret(FALSE), d.log)
      ELSE
        LET p == mapPermits(pol, req.role.names, req) IN
        IF p.out.kind = "throw" THEN Result(p.out, d.log \o p.log)
        ELSE Result(Ret(includesTrue(p.vals)), d.log \o p.log)
    ELSE
      LET role == req.role.names[1]
          entries == _findEntries(pol, role, req.clazz, req.method)
          p == _permits(entries, role, req.clazz, req.method, req.data)
      IN
      IF p.out.kind = "throw" THEN p
      ELSE IF ~p.out.val THEN Result(Ret(FALSE), p.log)
      ELSE
        LET d == _denies(entries, role, req.clazz, req.method, req.data) IN
        IF d.out.kind = "throw" THEN Result(d.out, p.log \o d.log)
        ELSE Result(Ret(~d.out.val), p.log \o d.log)

\* permits that takes a denies that raises for a denies that returns false
permitsDespiteError(pol, req) ==
    IF req.role.isArray
    THEN
      LET d == mapDenies(pol, req.role.names, req) IN
      IF d.out.kind = "return" /\ includesTrue(d.vals) THEN Result(Ret(FALSE), d.log)
      ELSE
        LET p == mapPermits(pol, req.role.names, req) IN
        IF p.out.kind = "throw" THEN Result(p.out, d.log \o p.log)
        ELSE Result(Ret(includesTrue(p.vals)), d.log \o p.log)
    ELSE
      LET role == req.role.names[1]
          entries == _findEntries(pol, role, req.clazz, req.method)
          d == _denies(entries, role, req.clazz, req.method, req.data)
      IN
      IF d.out = Ret(TRUE) THEN Result(Ret(FALSE), d.log)
      ELSE
        LET p == _permits(entries, role, req.clazz, req.method, req.data) IN
        Result(p.out, d.log \o p.log)

\* MethodAccessController.permits
permits(pol, req) ==
    IF req.role.isArray
    THEN
      LET d == mapDenies(pol, req.role.names, req) IN
      IF d.out.kind = "throw" THEN Result(d.out, d.log)
      ELSE IF includesTrue(d.vals) THEN Result(Ret(FALSE), d.log)
      ELSE
        LET p == mapPermits(pol, req.role.names, req) IN
        IF p.out.kind = "throw" THEN Result(p.out, d.log \o p.log)
        ELSE Result(Ret(includesTrue(p.vals)), d.log \o p.log)
    ELSE
      LET role == req.role.names[1]
          entries == _findEntries(pol, role, req.clazz, req.method)
          d == _denies(entries, role, req.clazz, req.method, req.data)
      IN
      IF d.out.kind = "throw" THEN d
      ELSE IF d.out.val THEN Result(Ret(FALSE), d.log)
      ELSE
        LET p == _permits(entries, role, req.clazz, req.method, req.data) IN
        Result(p.out, d.log \o p.log)

\* grants that does not pass data on
grantsWithoutData(pol, req) ==
    permits(pol, Request(req.role, req.clazz, req.method, 0))

\* MethodAccessController.grants (deprecated)
grants(pol, req) ==
    permits(pol, Request(req.role, req.clazz, req.method, req.data))

\* constructor without the default
constructorNoDefault(arg, dflt) == arg.list

\* constructor that takes an empty policy for none
constructorEmptyDefault(arg, dflt) ==
    IF arg.given /\ arg.list # <<>> THEN arg.list ELSE dflt

\* constructor: policy = policy || DEFAULT_SECURITY_POLICY
constructor(arg, dflt) == IF arg.given THEN arg.list ELSE dflt

\* ------------------------------------------------------------------ state
VARIABLES
    DEFAULT_SECURITY_POLICY,  \* the module-level default policy
    supplied,                 \* whether the constructor was given a policy
    _policy,                  \* this._policy
    pc,                       \* "idle", or "done" while a decision is held
    op,                       \* the operation last called
    request,                  \* its argument
    outcome,                  \* what it returned or threw
    log,                      \* the strategies it resolved and invoked
    calls                     \* the local state of each call in progress

vars == <<DEFAULT_SECURITY_POLICY, supplied, _policy, pc, op, request, outcome, log, calls>>

NoRequest == Request(ArrayRole(<<>>), <<>>, <<>>, 0)

\* the callers whose calls may be in progress at the same time
Callers == {"a", "b"}

\* the local state of a call: the request, the position in the role maps
\* (phase, ri), the mode of the interrogation under way (permit), the
\* entries found for the role and what the loop has still to visit (rest),
\* the results the map has collected, and the outcome
NoCall ==
    [status |-> "idle", op |-> "none", req |-> NoRequest, phase |-> "none",
     ri |-> 0, permit |-> FALSE, entries |-> <<>>, rest |-> <<>>,
     results |-> <<>>, out |-> Ret(FALSE), log |-> <<>>]

Init ==
    /\ DEFAULT_SECURITY_POLICY = DefaultPolicyValue
    /\ \E arg \in CtorArgs :
        /\ supplied = arg.given
        /\ _policy = constructor(arg, DefaultPolicyValue)
    /\ pc = "idle"
    /\ op = "none"
    /\ request = NoRequest
    /\ outcome = Ret(FALSE)
    /\ log = <<>>
    /\ calls = [p \in Callers |-> NoCall]

\* a call that keeps the entries it found as the policy
FinishStoring(name, req, r) ==
    /\ pc' = "done"
    /\ op' = name
    /\ request' = req
    /\ outcome' = r.out
    /\ log' = r.log
    /\ _policy' = IF req.role.names = <<>> THEN _policy
                  ELSE _findEntries(_policy, req.role.names[1], req.clazz, req.method)
    /\ UNCHANGED <<DEFAULT_SECURITY_POLICY, supplied, calls>>

\* One call of a public method: it runs to completion (the code is
\* synchronous) and leaves its decision or error with the caller.
Finish(name, req, r) ==
    /\ pc' = "done"
    /\ op' = name
    /\ request' = req
    /\ outcome' = r.out
    /\ log' = r.log
    /\ UNCHANGED <<DEFAULT_SECURITY_POLICY, supplied, _policy, calls>>

Permits ==
    /\ pc = "idle"
    /\ \E req \in Requests : Finish("permits", req, permits(_policy, req))

Denies ==
    /\ pc = "idle"
    /\ \E req \in Requests : Finish("denies", req, denies(_policy, req))

Grants ==
    /\ pc = "idle"
    /\ \E req \in Requests : Finish("grants", req, grants(_policy, req))

\* The caller consumes the decision; request and decision are transient.
Return ==
    /\ pc = "done"
    /\ pc' = "idle"
    /\ op' = "none"
    /\ request' = NoRequest
    /\ outcome' = Ret(FALSE)
    /\ log' = <<>>
    /\ UNCHANGED <<DEFAULT_SECURITY_POLICY, supplied, _policy, calls>>

Next == Permits \/ Denies \/ Grants \/ Return

Spec == Init /\ [][Next]_vars

\* ------------------------------------------- calls, one entry at a time
\* The same methods as a machine that evaluates one entry per step, so that
\* the calls of several callers can be interleaved.

MaxConcPolicy == 2

\* the entries and policies of the interleaved calls
ConcPool ==
    {Entry(ReAll, ReAll, ReAll, StrValue("./even-day")),
     Entry(ReExact(RoleM), ReAll, ReAll, BoolValue(FALSE)),
     Entry(ReAll, ReAll, ReAll, BoolValue(TRUE)),
     Entry(ReExact(RoleTM), ReAll, ReAll, StrValue("./policy.json"))}
ConcPolicies == UNION {[1..k -> ConcPool] : k \in 0..MaxConcPolicy}

\* the requests of the interleaved calls
ConcRequests ==
    {Request(role, ClassFoo, MethodBar, data) :
        role \in {SingleRole(RoleM), ArrayRole(<<RoleTM, RoleM>>)},
        data \in DataValues}

\* the body of the loop of _interrogate for the entry it: the loop goes on
\* to the next entry, or the interrogation returns, or it throws
_interrogateEntry(it, role, clazz, method, data, permit) ==
    IF it.strategy.type = "boolean"
    THEN IF it.strategy.bool = permit
         THEN [kind |-> "return", val |-> TRUE, err |-> "-", log |-> <<>>]
         ELSE [kind |-> "continue", val |-> FALSE, err |-> "-", log |-> <<>>]
    ELSE
      LET isStr == it.strategy.type = "string"
          req == IF isStr THEN require(it.strategy.ref) ELSE Ret(it.strategy)
          reqLog == IF isStr THEN <<RequireEvent(it.strategy.ref)>> ELSE <<>>
      IN
      IF req.kind = "throw"
      THEN [kind |-> "throw", val |-> FALSE, err |-> req.err, log |-> reqLog]
      ELSE
        LET strategy == req.val IN
        IF strategy.type = "function"
        THEN
          LET permitted == ApplyStrategy(strategy.ref, role, clazz, method, data)
              called == reqLog \o <<CallEvent(strategy.ref, role, clazz, method, data)>>
          IN
          IF permitted.kind = "throw"
          THEN [kind |-> "throw", val |-> FALSE, err |-> permitted.err, log |-> called]
          ELSE IF permit /\ permitted.val
          THEN [kind |-> "return", val |-> TRUE, err |-> "-", log |-> called]
          ELSE IF ~permit /\ ~permitted.val
          THEN [kind |-> "return", val |-> FALSE, err |-> "-", log |-> called]
          ELSE [kind |-> "continue", val |-> FALSE, err |-> "-", log |-> called]
        ELSE [kind |-> "throw", val |-> FALSE, err |-> E_STRATEGY_NOT_A_FUNCTION,
              log |-> reqLog]

\* the call returns or throws o to its caller
Finished(f, o) ==
    [f EXCEPT !.status = "done", !.out = o, !.phase = "none", !.ri = 0,
              !.permit = FALSE, !.entries = <<>>, !.rest = <<>>, !.results = <<>>]

\* denies or permits of the i-th role starts: _findEntries, then deny mode
StartRole(pol, f, phase, i, results) ==
    LET found == _findEntries(pol, f.req.role.names[i], f.req.clazz, f.req.method) IN
    [f EXCEPT !.phase = phase, !.ri = i, !.permit = FALSE, !.results = results,
              !.entries = found, !.rest = found]

\* denies or permits of the role under way has returned b: it is the result
\* of a single-role call, or the next element of the map of an array call
ElementDone(pol, f, b) ==
    IF ~f.req.role.isArray THEN Finished(f, Ret(b))
    ELSE
      LET results == Append(f.results, b) IN
      IF f.ri < Len(f.req.role.names)
      THEN StartRole(pol, f, f.phase, f.ri + 1, results)
      ELSE IF f.op = "denies" THEN Finished(f, Ret(includesTrue(results)))
      ELSE IF f.phase = "permits" THEN Finished(f, Ret(includesTrue(results)))
      ELSE IF includesTrue(results) THEN Finished(f, Ret(FALSE))
      ELSE StartRole(pol, f, "permits", 1, <<>>)

\* the interrogation under way has returned b: in permits, deny mode is
\* followed by permit mode over the same entries unless it returned true
InterrogationDone(pol, f, b) ==
    IF f.phase = "denies" THEN ElementDone(pol, f, b)
    ELSE IF f.permit THEN ElementDone(pol, f, b)
    ELSE IF b THEN ElementDone(pol, f, FALSE)
    ELSE [f EXCEPT !.permit = TRUE, !.rest = f.entries]

\* a permits or denies call is entered
Entered(pol, name, req) ==
    LET f == [NoCall EXCEPT !.status = "running", !.op = name, !.req = req] IN
    IF ~req.role.isArray THEN StartRole(pol, f, name, 1, <<>>)
    ELSE IF req.role.names = <<>> THEN Finished(f, Ret(FALSE))
    ELSE StartRole(pol, f, "denies", 1, <<>>)

\* an iterator shared by all the calls
iteratorOfAny(cs, p) == cs[CHOOSE q \in Callers : TRUE].rest

\* the iterator of the loop of the call of p over its own entries
iteratorOf(cs, p) == cs[p].rest

\* an iterator that does not advance
advanceNot(rest) == rest

\* the iterator advances to the next entry
advance(rest) == Tail(rest)

InitConc ==
    /\ DEFAULT_SECURITY_POLICY = DefaultPolicyValue
    /\ supplied = TRUE
    /\ \E p \in ConcPolicies : _policy = constructor(Given(p), DefaultPolicyValue)
    /\ pc = "idle"
    /\ op = "none"
    /\ request = NoRequest
    /\ outcome = Ret(FALSE)
    /\ log = <<>>
    /\ calls = [p \in Callers |-> NoCall]

Unshared == <<DEFAULT_SECURITY_POLICY, supplied, _policy, pc, op, request, outcome, log>>

EnterPermits(p) ==
    /\ calls[p].status = "idle"
    /\ \E req \in ConcRequests :
          calls' = [calls EXCEPT ![p] = Entered(_policy, "permits", req)]
    /\ UNCHANGED Unshared

EnterDenies(p) ==
    /\ calls[p].status = "idle"
    /\ \E req \in ConcRequests :
          calls' = [calls EXCEPT ![p] = Entered(_policy, "denies", req)]
    /\ UNCHANGED Unshared

\* the call of p evaluates the next entry of its interrogation, or finds
\* that none is left
Evaluate(p) ==
    /\ calls[p].status = "running"
    /\ LET f == calls[p]
           rest == iteratorOf(calls, p)
       IN
       IF rest = <<>>
       THEN calls' = [calls EXCEPT ![p] = InterrogationDone(_policy, f, FALSE)]
       ELSE
         LET e == _interrogateEntry(Head(rest), f.req.role.names[f.ri], f.req.clazz,
                                    f.req.method, f.req.data, f.permit)
             g == [f EXCEPT !.log = @ \o e.log]
         IN
         calls' = [calls EXCEPT ![p] =
                     CASE e.kind = "continue" -> [g EXCEPT !.rest = advance(rest)]
                       [] e.kind = "return" -> InterrogationDone(_policy, g, e.val)
                       [] e.kind = "throw" -> Finished(g, Throw(e.err))]
    /\ UNCHANGED Unshared

\* the caller p takes the outcome of its call
Leave(p) ==
    /\ calls[p].status = "done"
    /\ calls' = [calls EXCEPT ![p] = NoCall]
    /\ UNCHANGED Unshared

NextConc ==
    \E p \in Callers : EnterPermits(p) \/ EnterDenies(p) \/ Evaluate(p) \/ Leave(p)

\* a call that has been entered keeps running: the code is synchronous
SpecConc ==
    InitConc /\ [][NextConc]_vars /\ \A p \in Callers : WF_vars(Evaluate(p))

\* ------------------------------------------------------------------ claims
Called(name) == pc = "done" /\ op = name

\* C1: permits and denies are never both true for the same policy and
\* request: when a permits call returns true, denies of that request
\* returns false, and when a denies call returns true, permits of that
\* request does not return true.
C1_PermitsExcludesDenies ==
    /\ (Called("permits") /\ outcome = Ret(TRUE))
          => denies(_policy, request).out = Ret(FALSE)
    /\ (Called("denies") /\ outcome = Ret(TRUE))
          => permits(_policy, request).out # Ret(TRUE)

\* a role array of two roles is permitted after dynamic strategies ran,
\* under a policy that holds a literal false entry
C1_Witness ==
    /\ Called("permits") /\ outcome = Ret(TRUE)
    /\ request.role.isArray /\ Len(request.role.names) = 2
    /\ \E i \in 1..Len(log) : log[i].ev = "call"
    /\ \E i \in 1..Len(_policy) : _policy[i].strategy = BoolValue(FALSE)

\* the role of a single-role request
TheRole == request.role.names[1]
IsSingle == ~request.role.isArray /\ request # NoRequest

\* the request of the call, for one role name
ForRole(r) == Request(SingleRole(r), request.clazz, request.method, request.data)

\* positions of the policy whose three matchers all match the request for role r
MatchingFor(r) ==
    {i \in 1..Len(_policy) :
        /\ test(_policy[i].roles, r)
        /\ test(_policy[i].classes, request.clazz)
        /\ test(_policy[i].methods, request.method)}

IsLiteral(i, b) == _policy[i].strategy = BoolValue(b)

\* C2 (as claimed): a single-role request matched by an entry with the
\* literal strategy false is denied and not permitted, whatever the other
\* matching entries are (stated here for the calls that return a decision).
C2_SingleDenialVetoes ==
    (/\ pc = "done" /\ IsSingle /\ outcome.kind = "return"
     /\ \E i \in MatchingFor(TheRole) : IsLiteral(i, FALSE))
    => /\ op = "denies" => outcome.val = TRUE
       /\ op \in {"permits", "grants"} => outcome.val = FALSE

C4_ArrayDeniesIsOr ==
    (Called("denies") /\ request.role.isArray /\ outcome.kind = "return")
    => LET names == request.role.names IN
       outcome.val =
          (\E i \in 1..Len(names) : denies(_policy, ForRole(names[i])).out = Ret(TRUE))

\* two roles of which only the second is denied
C4_Witness ==
    /\ Called("denies") /\ request.role.isArray /\ Len(request.role.names) = 2
    /\ outcome = Ret(TRUE)
    /\ denies(_policy, ForRole(request.role.names[1])).out = Ret(FALSE)
    /\ denies(_policy, ForRole(request.role.names[2])).out = Ret(TRUE)

\* C5: for an empty role array, denies, permits and grants return false and
\* no strategy is resolved or invoked.
C5_EmptyRoleArray ==
    (pc = "done" /\ request.role = ArrayRole(<<>>))
    => outcome = Ret(FALSE) /\ log = <<>>

\* denies of an empty role array under a policy whose only entry statically
\* denies every request
C5_Witness ==
    /\ Called("denies") /\ request.role = ArrayRole(<<>>)
    /\ _policy = <<Entry(ReAll, ReAll, ReAll, BoolValue(FALSE))>>
    /\ outcome = Ret(FALSE)

\* C6: a controller constructed without a policy holds the default policy,
\* and for every single role and every non-empty role array permits (and
\* grants) returns true and denies returns false.
C6_DefaultPolicy ==
    ~supplied =>
        /\ _policy = <<Entry(ReAll, ReAll, ReAll, BoolValue(TRUE))>>
        /\ (pc = "done" /\ request.role.names # <<>>)
              => /\ op \in {"permits", "grants"} => outcome = Ret(TRUE)
                 /\ op = "denies" => outcome = Ret(FALSE)

\* permits of a two-role array on a controller constructed without a policy
C6_Witness ==
    /\ ~supplied /\ Called("permits")
    /\ request.role.isArray /\ Len(request.role.names) = 2
    /\ outcome = Ret(TRUE)

\* C7: when no entry matches a single-role request on all three of role,
\* class and method, permits and denies return false (and no strategy is
\* resolved or invoked).
C7_NoMatchingEntry ==
    (pc = "done" /\ IsSingle /\ MatchingFor(TheRole) = {})
    => outcome = Ret(FALSE) /\ log = <<>>

\* permits when an entry with strategy true matches the role and the class
\* but not the method
C7_Witness ==
    /\ Called("permits") /\ IsSingle /\ MatchingFor(TheRole) = {}
    /\ \E i \in 1..Len(_policy) :
        /\ test(_policy[i].roles, TheRole) /\ _policy[i].roles # ReAll
        /\ test(_policy[i].classes, request.clazz)
        /\ ~test(_policy[i].methods, request.method)
        /\ IsLiteral(i, TRUE)
    /\ outcome = Ret(FALSE)

\* the reorderings of a policy
Orderings(n) == {f \in [1..n -> 1..n] : \A i, j \in 1..n : f[i] = f[j] => i = j}
Reorder(pol, f) == [i \in 1..Len(pol) |-> pol[f[i]]]

\* C8: when every entry matching a single-role request has a boolean
\* literal strategy, denies is true iff some matching entry is literal false,
\* permits is true iff some matching entry is literal true and none is
\* literal false, and reordering the policy changes neither result.
C8_LiteralPolicies ==
    (/\ pc = "done" /\ IsSingle
     /\ \A i \in MatchingFor(TheRole) : _policy[i].strategy.type = "boolean")
    => LET someFalse == \E i \in MatchingFor(TheRole) : IsLiteral(i, FALSE)
           someTrue == \E i \in MatchingFor(TheRole) : IsLiteral(i, TRUE)
       IN
       /\ op = "denies" =>
            /\ outcome = Ret(someFalse)
            /\ \A f \in Orderings(Len(_policy)) :
                 denies(Reorder(_policy, f), request).out = outcome
       /\ op \in {"permits", "grants"} =>
            /\ outcome = Ret(someTrue /\ ~someFalse)
            /\ \A f \in Orderings(Len(_policy)) :
                 permits(Reorder(_policy, f), request).out = outcome

\* strategies [true, true, false] matching the request: denies is true
C8_Witness ==
    /\ Called("denies") /\ IsSingle
    /\ Len(_policy) = 3 /\ MatchingFor(TheRole) = {1, 2, 3}
    /\ IsLiteral(1, TRUE) /\ IsLiteral(2, TRUE) /\ IsLiteral(3, FALSE)
    /\ outcome = Ret(TRUE)

\* C9: grants returns the decision or raises the error that permits does for
\* the same policy and request, with the same strategy resolutions and
\* invocations in the same order.
C9_GrantsIsPermits ==
    Called("grants") =>
        /\ outcome = permits(_policy, request).out
        /\ log = permits(_policy, request).log

\* a grants call of a role array that invoked a strategy with the data
\* and then raised
C9_Witness ==
    /\ Called("grants") /\ request.role.isArray
    /\ outcome.kind = "throw"
    /\ \E i \in 1..Len(log) : log[i].ev = "call" /\ log[i].data = request.data

\* what the strategy of entry i is once a string reference is resolved
Resolved(i) ==
    IF _policy[i].strategy.type = "string"
    THEN require(_policy[i].strategy.ref) ELSE Ret(_policy[i].strategy)

\* the resolved strategy of entry i is neither a boolean literal nor callable
NotCallable(i) ==
    Resolved(i).kind = "return" /\ Resolved(i).val.type \notin {"boolean", "function"}

\* entry i is not decisive for role r in the given mode and raises nothing
Passes(i, r, permit) ==
    \/ _policy[i].strategy.type = "boolean" /\ _policy[i].strategy.bool # permit
    \/ /\ Resolved(i).kind = "return" /\ Resolved(i).val.type = "function"
       /\ ApplyStrategy(Resolved(i).val.ref, r, request.clazz, request.method,
                        request.data) = Ret(~permit)

\* the interrogation for role r in the given mode gets as far as entry k
ReachedIn(k, r, permit) ==
    k \in MatchingFor(r) /\ \A j \in MatchingFor(r) : j < k => Passes(j, r, permit)

\* the call in the state reaches entry k: while denies is evaluated role by
\* role, or (permits, grants) afterwards while permits is evaluated
Reaches(k) ==
    LET names == request.role.names IN
    \/ \E n \in 1..Len(names) :
         /\ ReachedIn(k, names[n], FALSE)
         /\ \A i \in 1..(n - 1) : denies(_policy, ForRole(names[i])).out.kind = "return"
    \/ /\ op \in {"permits", "grants"}
       /\ \E n \in 1..Len(names) : ReachedIn(k, names[n], TRUE)
       /\ \A i \in 1..Len(names) : denies(_policy, ForRole(names[i])).out = Ret(FALSE)
       /\ \E n \in 1..Len(names) :
            /\ ReachedIn(k, names[n], TRUE)
            /\ \A i \in 1..(n - 1) : permits(_policy, ForRole(names[i])).out.kind = "return"

\* C10: a permits, grants or denies call whose interrogation reaches a
\* matching entry whose resolved strategy is neither a boolean literal nor a
\* function raises E_STRATEGY_NOT_A_FUNCTION.
C10_NotAFunctionRaises ==
    pc = "done" =>
        \A k \in 1..Len(_policy) :
            (NotCallable(k) /\ Reaches(k)) => outcome = Throw(E_STRATEGY_NOT_A_FUNCTION)

\* permits reaches, in permit mode only, a second entry whose module
\* reference resolves to an object
C10_Witness ==
    /\ Called("permits") /\ IsSingle
    /\ outcome = Throw(E_STRATEGY_NOT_A_FUNCTION)
    /\ denies(_policy, request).out = Ret(FALSE)
    /\ Len(log) = 3 /\ log[3] = RequireEvent("./policy.json")

\* the error entry k raises when it is evaluated for role r ("-" if none):
\* its module cannot be resolved, or its strategy function throws
RaisedBy(k, r) ==
    IF Resolved(k).kind = "throw" THEN Resolved(k).err
    ELSE IF Resolved(k).val.type # "function" THEN "-"
    ELSE ApplyStrategy(Resolved(k).val.ref, r, request.clazz, request.method,
                       request.data).err

\* the call in the state reaches entry k while it evaluates role r
ReachesAs(k, r) ==
    LET names == request.role.names IN
    \/ /\ ReachedIn(k, r, FALSE)
       /\ \E n \in 1..Len(names) :
            /\ names[n] = r
            /\ \A i \in 1..(n - 1) : denies(_policy, ForRole(names[i])).out.kind = "return"
    \/ /\ op \in {"permits", "grants"}
       /\ ReachedIn(k, r, TRUE)
       /\ \A i \in 1..Len(names) : denies(_policy, ForRole(names[i])).out = Ret(FALSE)
       /\ \E n \in 1..Len(names) :
            /\ names[n] = r
            /\ \A i \in 1..(n - 1) : permits(_policy, ForRole(names[i])).out.kind = "return"

\* C11: when a call reaches an entry whose strategy throws, or whose module
\* reference cannot be resolved, the call raises that very error instead of
\* returning a decision; and an error of a strategy or of require that a
\* call raises is the error of an entry of the policy.
C11_FailuresPropagate ==
    pc = "done" =>
        /\ \A k \in 1..Len(_policy) :
             \A i \in 1..Len(request.role.names) :
                LET r == request.role.names[i] IN
                RaisedBy(k, r) # "-" =>
                    (outcome = Throw(RaisedBy(k, r)) \/ ~ReachesAs(k, r))
        /\ (outcome.kind = "throw" /\ outcome.err \in {E_BOOM, MODULE_NOT_FOUND})
              => \E k \in 1..Len(_policy) :
                   \E i \in 1..Len(request.role.names) :
                      RaisedBy(k, request.role.names[i]) = outcome.err

\* permits of two roles, neither denied: the strategy that throws is reached
\* only when permits is evaluated for the second role
C11_Witness ==
    /\ Called("permits") /\ request.role.isArray /\ Len(request.role.names) = 2
    /\ outcome = Throw(E_BOOM)
    /\ \A i \in 1..2 : denies(_policy, ForRole(request.role.names[i])).out = Ret(FALSE)
    /\ permits(_policy, ForRole(request.role.names[1])).out = Ret(TRUE)

\* position of the first occurrence of role r in the request
FirstIndex(r) ==
    CHOOSE n \in 1..Len(request.role.names) :
        /\ request.role.names[n] = r
        /\ \A m \in 1..(n - 1) : request.role.names[m] # r

\* C12: every strategy invocation receives one role name of the request
\* (the role itself for a single-role request), for which the entry of the
\* invoked strategy matches, and the clazz, method and data of the request;
\* a denies call of distinct roles invokes the strategies role by role in
\* the order of the role array.
C12_StrategyArguments ==
    pc = "done" =>
        /\ \A i \in 1..Len(log) :
             log[i].ev = "call" =>
                /\ \E n \in 1..Len(request.role.names) : request.role.names[n] = log[i].role
                /\ IsSingle => log[i].role = TheRole
                /\ \E k \in MatchingFor(log[i].role) :
                     Resolved(k) = Ret(FnValue(log[i].what))
                /\ log[i].clazz = request.clazz
                /\ log[i].method = request.method
                /\ log[i].data = request.data
        /\ (/\ op = "denies"
            /\ \A m, n \in 1..Len(request.role.names) :
                  request.role.names[m] = request.role.names[n] => m = n) =>
             \A i, j \in 1..Len(log) :
                (i < j /\ log[i].ev = "call" /\ log[j].ev = "call")
                   => FirstIndex(log[i].role) <= FirstIndex(log[j].role)

\* permits of the roles [TM, M] with data 2 invoked a strategy for each role
C12_Witness ==
    /\ Called("permits") /\ request.role = ArrayRole(<<RoleTM, RoleM>>)
    /\ request.data = 2
    /\ \E i, j \in 1..Len(log) :
         /\ i < j /\ log[i].ev = "call" /\ log[j].ev = "call"
         /\ log[i].role = RoleTM /\ log[j].role = RoleM

\* C13: no call, returning or raising, changes the policy of the controller
\* or the shared default policy, which stays the single allow-all entry.
C13_PolicyNeverChanges ==
    [][/\ _policy' = _policy
       /\ DEFAULT_SECURITY_POLICY = DefaultPolicyValue
       /\ DEFAULT_SECURITY_POLICY' = DefaultPolicyValue]_vars

\* a call that raised, on a controller constructed with a policy of its own
C13_Witness ==
    /\ pc = "done" /\ outcome.kind = "throw"
    /\ supplied /\ Len(_policy) = 2 /\ _policy # DEFAULT_SECURITY_POLICY

\* ------------------------------------------------------------------- C15
\* the entries _findEntries selects for the single role of the call
Selected == _findEntries(_policy, TheRole, request.clazz, request.method)

\* the pattern of re matches the whole of the name s
MatchesEntire(re, s) == re.kind = "all" \/ s = re.lit

\* the pattern of re matches the letters a..b of the name s, where an
\* anchored pattern accepts only a = 1 and b = Len(s)
MatchesAt(re, s, a, b) ==
    /\ b - a + 1 = Len(re.lit)
    /\ \A i \in a..b : s[i] = re.lit[i - a + 1]
    /\ re.kind = "exact" => (a = 1 /\ b = Len(s))

FindsMatch(re, s) ==
    re.kind = "all" \/ \E a \in 1..Len(s) : \E b \in a..Len(s) : MatchesAt(re, s, a, b)

FindsAll(e) ==
    /\ FindsMatch(e.roles, TheRole)
    /\ FindsMatch(e.classes, request.clazz)
    /\ FindsMatch(e.methods, request.method)

\* C15 (as claimed): every entry selected for a single-role call matches the
\* entire role name, the entire class name and the entire method name.
C15_AnchoredSelection ==
    (pc = "done" /\ IsSingle) =>
        \A k \in 1..Len(Selected) :
            /\ MatchesEntire(Selected[k].roles, TheRole)
            /\ MatchesEntire(Selected[k].classes, request.clazz)
            /\ MatchesEntire(Selected[k].methods, request.method)

\* C15 (amended): an entry is selected for a single-role call exactly when
\* each of its three patterns finds a match somewhere in the corresponding
\* name, the whole name only if the pattern itself is anchored; and over a
\* policy of literal true entries permits returns true exactly when some
\* entry is found that way.
C15_SelectionBySearch ==
    (pc = "done" /\ IsSingle) =>
        /\ \A i \in 1..Len(_policy) :
             (\E k \in 1..Len(Selected) : Selected[k] = _policy[i]) <=> FindsAll(_policy[i])
        /\ (op = "permits" /\ \A i \in 1..Len(_policy) : IsLiteral(i, TRUE))
              => outcome = Ret(\E i \in 1..Len(_policy) : FindsAll(_policy[i]))

\* permits returns true for the role TM through an entry whose roles pattern
\* is the unanchored M
C15_Witness ==
    /\ Called("permits") /\ IsSingle
    /\ TheRole = RoleTM
    /\ _policy = <<Entry(ReContains(RoleM), ReAll, ReAll, BoolValue(TRUE))>>
    /\ outcome = Ret(TRUE)

\* ------------------------------------------------------------------- C16
\* the two interrogations of the entries selected for the single role
DenyMode == _denies(Selected, TheRole, request.clazz, request.method, request.data)
PermitMode == _permits(Selected, TheRole, request.clazz, request.method, request.data)

\* the events entry j leaves in the log when an interrogation passes it
EventsOf(j) ==
    CASE _policy[j].strategy.type = "boolean" -> 0
      [] _policy[j].strategy.type = "string" -> 2
      [] OTHER -> 1

\* the events of the matching entries before position k
RECURSIVE EventsBefore(_)
EventsBefore(k) ==
    IF k <= 1 THEN 0
    ELSE EventsBefore(k - 1)
         + (IF (k - 1) \in MatchingFor(TheRole) THEN EventsOf(k - 1) ELSE 0)

\* C16: a single-role permits is NOT(deny mode) AND (permit mode) over the
\* same selected entries, deny mode first: when deny mode raises, permits
\* raises that error; when deny mode returns true, permits returns false and
\* the log holds the events of deny mode only, so nothing was resolved or
\* invoked in permit mode; when deny mode returns false, permits is the
\* result of permit mode and the log is deny mode's followed by permit
\* mode's. So a literal false that deny mode gets to makes permits return
\* false with only the events of the entries before it.
C16_DenyFirstThenPermit ==
    (Called("permits") /\ IsSingle) =>
        /\ DenyMode.out.kind = "throw" => (outcome = DenyMode.out /\ log = DenyMode.log)
        /\ DenyMode.out = Ret(TRUE) => (outcome = Ret(FALSE) /\ log = DenyMode.log)
        /\ DenyMode.out = Ret(FALSE) =>
              (outcome = PermitMode.out /\ log = DenyMode.log \o PermitMode.log)
        /\ outcome.kind = "return" =>
              outcome.val = (DenyMode.out = Ret(FALSE) /\ PermitMode.out = Ret(TRUE))
        /\ \A k \in MatchingFor(TheRole) :
              (IsLiteral(k, FALSE) /\ ReachedIn(k, TheRole, FALSE))
                 => (outcome = Ret(FALSE) /\ Len(log) = EventsBefore(k))

\* deny mode returns true, and permit mode, which would have raised, is not
\* run
C16_Witness ==
    /\ Called("permits") /\ IsSingle
    /\ DenyMode.out = Ret(TRUE)
    /\ PermitMode.out.kind = "throw"
    /\ log = <<>>
    /\ outcome = Ret(FALSE)

\* ------------------------------------------------------------------- C17
\* entry j is dynamic: its strategy is, or resolves to, a function
Dynamic(j) == Resolved(j).kind = "return" /\ Resolved(j).val.type = "function"

\* what the strategy of the dynamic entry j returns for the single role
Returned(j) ==
    ApplyStrategy(Resolved(j).val.ref, TheRole, request.clazz, request.method,
                  request.data)

GrantsAt(k) == IsLiteral(k, TRUE) \/ (Dynamic(k) /\ Returned(k) = Ret(TRUE))

\* C18: a single-role permits that raises no error and whose deny mode
\* returns false returns true if and only if some matching entry, at any
\* position, is the literal true or a dynamic entry returning true; so a
\* dynamic entry returning false before such an entry does not block it, and
\* permit mode invokes the dynamic entries it passes.
C18_PermitsIff ==
    (Called("permits") /\ IsSingle /\ outcome.kind = "return" /\ DenyMode.out = Ret(FALSE)) =>
        /\ outcome.val = (\E k \in MatchingFor(TheRole) : GrantsAt(k))
        /\ \A k \in MatchingFor(TheRole) :
             (GrantsAt(k) /\ ReachedIn(k, TheRole, TRUE))
                => /\ outcome = Ret(TRUE)
                   /\ Len(PermitMode.log) =
                         EventsBefore(k) + (IF IsLiteral(k, TRUE) THEN 0 ELSE EventsOf(k))

\* permits returns true through a dynamic entry that comes after a dynamic
\* entry returning false
C18_Witness ==
    /\ Called("permits") /\ IsSingle
    /\ outcome = Ret(TRUE)
    /\ \E k \in MatchingFor(TheRole) :
         /\ Dynamic(k) /\ Returned(k) = Ret(TRUE)
         /\ \E j \in MatchingFor(TheRole) : j < k /\ Dynamic(j) /\ Returned(j) = Ret(FALSE)

\* ------------------------------------------------------------------- C19
\* the n-th smallest matching position of the policy
NthMatching(n) ==
    CHOOSE i \in MatchingFor(TheRole) :
        Cardinality({j \in MatchingFor(TheRole) : j <= i}) = n

\* the matching entries of the policy, each once, in policy order
MatchingSubsequence ==
    [n \in 1..Cardinality(MatchingFor(TheRole)) |-> _policy[NthMatching(n)]]

\* C19: the entries interrogated for a single role are the matching entries
\* of the policy, each once and in policy order: _findEntries returns that
\* subsequence and the call's outcome and events are those of interrogating
\* it; when no entry matches the list is empty and the call returns false
\* without raising and without resolving or invoking anything.
C19_MatchedInPolicyOrder ==
    (pc = "done" /\ IsSingle) =>
        /\ Selected = MatchingSubsequence
        /\ op = "denies" =>
              Result(outcome, log) =
                 _denies(MatchingSubsequence, TheRole, request.clazz, request.method,
                         request.data)
        /\ (op # "denies" /\ DenyMode.out = Ret(FALSE)) =>
              /\ outcome = _permits(MatchingSubsequence, TheRole, request.clazz,
                                    request.method, request.data).out
              /\ Len(log) >= Len(DenyMode.log)
        /\ MatchingFor(TheRole) = {} =>
              (Selected = <<>> /\ outcome = Ret(FALSE) /\ log = <<>>)

\* two different matching entries, invoked in the order of the policy
C19_Witness ==
    /\ Called("denies") /\ IsSingle
    /\ MatchingFor(TheRole) = {1, 2}
    /\ Dynamic(1) /\ Dynamic(2) /\ _policy[1] # _policy[2]
    /\ Len(log) = 2
    /\ log[1].what = _policy[1].strategy.ref /\ log[2].what = _policy[2].strategy.ref

\* ------------------------------------------------------------------- C14
\* what the call of p returns, with its events, when it runs alone
Alone(p) ==
    IF calls[p].op = "permits" THEN permits(_policy, calls[p].req)
    ELSE denies(_policy, calls[p].req)

\* C14: a call whose entry evaluations are interleaved with those of another
\* call returns the decision, or raises the error, and resolves and invokes
\* the strategies, that it does when it runs alone.
C14_InterleavedAsAlone ==
    \A p \in Callers :
        calls[p].status = "done" => Result(calls[p].out, calls[p].log) = Alone(p)

\* a permits call returns true while the call of another caller, of another
\* request, is in the middle of an interrogation
C14_Witness ==
    \E p \in Callers : \E q \in Callers :
        /\ calls[p].status = "done" /\ calls[p].op = "permits"
        /\ calls[p].out = Ret(TRUE) /\ Len(calls[p].log) > 1
        /\ calls[q].status = "running" /\ calls[q].req # calls[p].req
        /\ calls[q].log # <<>> /\ calls[q].rest # <<>>

\* ------------------------------------------------------------------- C20
\* the positions of the policy that match the request req for the role r
\* and whose strategy is, or resolves to, the function fn
MatchingDynamic(req, r, fn) ==
    {k \in 1..Len(_policy) :
        /\ test(_policy[k].roles, r)
        /\ test(_policy[k].classes, req.clazz)
        /\ test(_policy[k].methods, req.method)
        /\ Resolved(k) = Ret(FnValue(fn))}

\* how many times the events lg invoke the function fn
Invocations(lg, fn) ==
    Cardinality({i \in 1..Len(lg) : lg[i].ev = "call" /\ lg[i].what = fn})

\* a single-role denies has invoked each matching dynamic strategy at most
\* once, a single-role permits at most twice
InvokedWithinBound(p) ==
    LET f == calls[p] IN
    (f.status # "idle" /\ ~f.req.role.isArray) =>
        \A fn \in {"evenDay", "oddDay", "boom"} :
            Invocations(f.log, fn)
               <= (IF f.op = "denies" THEN 1 ELSE 2)
                  * Cardinality(MatchingDynamic(f.req, f.req.role.names[1], fn))

\* what an interrogation has still to visit is a tail of the matched entries
VisitsInOrder(p) ==
    LET f == calls[p] IN
    \E n \in 0..Len(f.entries) : f.rest = SubSeq(f.entries, n + 1, Len(f.entries))

\* a step of a running call ends the call, or starts another interrogation,
\* or leaves the entry it visited behind
VisitsOnce(p) ==
    (calls[p].status = "running" /\ calls'[p] # calls[p]) =>
        \/ calls'[p].status = "done"
        \/ <<calls'[p].phase, calls'[p].ri, calls'[p].permit>>
              # <<calls[p].phase, calls[p].ri, calls[p].permit>>
        \/ /\ calls[p].rest # <<>>
           /\ calls'[p].rest = Tail(calls[p].rest)
           /\ calls'[p].entries = calls[p].entries

\* C20: every permits or denies call that has been entered returns or
\* raises; an interrogation visits the matched entries in policy order, each
\* at most once; so a single-role denies invokes each matching dynamic
\* strategy at most once and a single-role permits at most twice.
C20_TerminatesBounded ==
    /\ [](\A p \in Callers : InvokedWithinBound(p) /\ VisitsInOrder(p))
    /\ [][\A p \in Callers : VisitsOnce(p)]_vars
    /\ \A p \in Callers : (calls[p].status = "running") ~> (calls[p].status = "done")

\* a single-role permits has returned after invoking the one matching
\* dynamic strategy twice, in deny mode and in permit mode
C20_Witness ==
    \E p \in Callers :
        /\ calls[p].status = "done" /\ calls[p].op = "permits"
        /\ ~calls[p].req.role.isArray
        /\ calls[p].out.kind = "return"
        /\ \E fn \in {"evenDay", "oddDay"} :
             /\ Cardinality(MatchingDynamic(calls[p].req, calls[p].req.role.names[1], fn)) = 1
             /\ Invocations(calls[p].log, fn) = 2

\* ------------------------------------------------------------------- C21
\* the strategy of entry k is a module reference that resolves to a boolean
ResolvesToBoolean(k) ==
    /\ _policy[k].strategy.type = "string"
    /\ Resolved(k).kind = "return" /\ Resolved(k).val.type = "boolean"

\* the call in the state reaches entry k for some role of the request
ReachesForSomeRole(k) ==
    \E i \in 1..Len(request.role.names) : ReachesAs(k, request.role.names[i])

\* C21 (as claimed): a call raises the strategy-not-callable error only when
\* it reaches an entry whose resolved strategy is neither a boolean nor
\* callable, so never through an entry whose reference resolves to a boolean.
C21_OnlyWhenNeitherBooleanNorCallable ==
    (pc = "done" /\ outcome = Throw(E_STRATEGY_NOT_A_FUNCTION)) =>
        \E k \in 1..Len(_policy) : NotCallable(k) /\ ReachesForSomeRole(k)

\* C21 (amended): a call raises the strategy-not-callable error only when it
\* reaches an entry whose strategy is not a boolean literal and, once a
\* module reference is resolved, is not a function; a reference that
\* resolves to a boolean is such an entry, and a call that reaches it raises
\* the error.
C21_OnlyWhenNotAFunction ==
    pc = "done" =>
        /\ outcome = Throw(E_STRATEGY_NOT_A_FUNCTION) =>
              \E k \in 1..Len(_policy) :
                  /\ _policy[k].strategy.type # "boolean"
                  /\ Resolved(k).kind = "return" /\ Resolved(k).val.type # "function"
                  /\ ReachesForSomeRole(k)
        /\ \A k \in 1..Len(_policy) :
              ResolvesToBoolean(k) =>
                 (outcome = Throw(E_STRATEGY_NOT_A_FUNCTION) \/ ~ReachesForSomeRole(k))

\* denies raises the error at the only entry of the policy, whose reference
\* resolves to the boolean true
C21_Witness ==
    /\ Called("denies") /\ IsSingle
    /\ Len(_policy) = 1 /\ ResolvesToBoolean(1)
    /\ outcome = Throw(E_STRATEGY_NOT_A_FUNCTION)
    /\ log = <<RequireEvent("./yes")>>

\* ------------------------------------------------------------------- C22
\* C22: the constructor keeps an empty policy list that it is given, and a
\* controller constructed with it returns false from permits, grants and
\* denies for every request, without resolving or invoking anything; the
\* allow-all default is the policy only of a controller given no policy,
\* unless the policy given is itself the allow-all entry.
C22_EmptyPolicyIsKept ==
    /\ constructor(Given(<<>>), DEFAULT_SECURITY_POLICY) = <<>>
    /\ supplied => constructor(Given(_policy), DEFAULT_SECURITY_POLICY) = _policy
    /\ (supplied /\ _policy = <<>> /\ pc = "done") => (outcome = Ret(FALSE) /\ log = <<>>)
    /\ (pc = "done" /\ op = "permits" /\ outcome = Ret(TRUE)) => _policy # <<>>

\* permits of a two-role array on a controller constructed with an empty
\* policy list
C22_Witness ==
    /\ supplied /\ _policy = <<>>
    /\ Called("permits")
    /\ request.role.isArray /\ Len(request.role.names) = 2
    /\ outcome = Ret(FALSE)

\* ------------------------------------------------------------------- C23
\* entry k raises when it is evaluated for the single role
Raises(k) ==
    \/ RaisedBy(k, TheRole) # "-"
    \/ /\ _policy[k].strategy.type # "boolean"
       /\ Resolved(k).kind = "return" /\ Resolved(k).val.type # "function"

\* the events entry k leaves when it is evaluated: a require for a module
\* reference, a call for a function
Produced(k) ==
    (IF _policy[k].strategy.type = "string" THEN 1 ELSE 0)
    + (IF Resolved(k).kind = "return" /\ Resolved(k).val.type = "function" THEN 1 ELSE 0)

\* the events of the entries among the first n that the interrogation of
\* the given mode reaches
RECURSIVE ProducedIn(_, _)
ProducedIn(n, permit) ==
    IF n = 0 THEN 0
    ELSE ProducedIn(n - 1, permit)
         + (IF ReachedIn(n, TheRole, permit) THEN Produced(n) ELSE 0)

\* the single-role call in the state runs the permit-mode interrogation
RunsPermitMode == op # "denies" /\ DenyMode.out = Ret(FALSE)

\* the single-role call in the state evaluates entry k
Evaluates(k) ==
    ReachedIn(k, TheRole, FALSE) \/ (RunsPermitMode /\ ReachedIn(k, TheRole, TRUE))

\* C23: a single-role call resolves and invokes the strategies of the
\* entries its interrogations reach and of no other: its events are those
\* of the reached entries, so none comes from an entry that does not match
\* or that lies after the entry at which the interrogation stops, and an
\* error it raises is the error of an entry it reached; constructing the
\* controller resolves and invokes nothing and raises nothing.
C23_OnlyReachedEntries ==
    /\ pc = "idle" => (log = <<>> /\ outcome.kind = "return")
    /\ (pc = "done" /\ IsSingle) =>
          /\ Len(log) = ProducedIn(Len(_policy), FALSE)
                        + (IF RunsPermitMode THEN ProducedIn(Len(_policy), TRUE) ELSE 0)
          /\ \A i \in 1..Len(log) :
                \E k \in 1..Len(_policy) :
                    /\ \/ log[i].ev = "require" /\ _policy[k].strategy = StrValue(log[i].what)
                       \/ log[i].ev = "call" /\ Resolved(k) = Ret(FnValue(log[i].what))
                    /\ Evaluates(k)
          /\ outcome.kind = "throw" => \E k \in 1..Len(_policy) : Raises(k) /\ Evaluates(k)

\* denies returns a decision although a matching entry after the one that
\* decides cannot be resolved or called
C23_Witness ==
    /\ Called("denies") /\ IsSingle
    /\ outcome = Ret(TRUE)
    /\ \E k \in MatchingFor(TheRole) : Raises(k) /\ ~Evaluates(k)

\* ------------------------------------------------------------------- C24
\* denies of the i-th role of the request alone
DeniesOfRole(i) == denies(_policy, ForRole(request.role.names[i]))

\* denies of the roles 1..n, one role after the other, up to the first that
\* raises: the error or whether some role is denied, and the events
RECURSIVE DeniesOfRoles(_)
DeniesOfRoles(n) ==
    IF n = 0 THEN Result(Ret(FALSE), <<>>)
    ELSE
      LET before == DeniesOfRoles(n - 1) IN
      IF before.out.kind = "throw" THEN before
      ELSE
        LET d == DeniesOfRole(n) IN
        Result(IF d.out.kind = "throw" THEN d.out ELSE Ret(before.out.val \/ d.out.val),
               before.log \o d.log)

\* C24: a call with a role array evaluates denies for every role in the
\* order of the array, whether or not an earlier role is denied, and
\* permits and grants do so before they evaluate permits for any role: the
\* events of the call start with the events of denies of each role in turn,
\* up to the first role whose denies raises, and then the call raises that
\* error, even when an earlier role is denied; when none raises, denies has
\* the events of all the roles and no others.
C24_NoShortCircuitAcrossRoles ==
    (pc = "done" /\ request.role.isArray) =>
        LET all == DeniesOfRoles(Len(request.role.names)) IN
        /\ Len(log) >= Len(all.log)
        /\ SubSeq(log, 1, Len(all.log)) = all.log
        /\ all.out.kind = "throw" => (outcome = all.out /\ log = all.log)
        /\ op = "denies" => (outcome = all.out /\ log = all.log)

\* denies raises the error of the second role although the first role is
\* denied
C24_Witness ==
    /\ Called("denies") /\ request.role.isArray
    /\ Len(request.role.names) = 2
    /\ DeniesOfRole(1).out = Ret(TRUE)
    /\ DeniesOfRole(2).out.kind = "throw"
    /\ outcome = DeniesOfRole(2).out

\* ------------------------------------------------------------------- C25
\* C25: for the same policy and request, single role or role array, when
\* denies raises an error permits raises that error too: a permits call
\* raises what denies of its request raises, and when a denies call raises,
\* so does permits of its request; so whenever permits returns a decision,
\* denies of the same request returns one.
C25_DeniesRaisesThenPermitsRaises ==
    pc = "done" =>
        /\ op = "permits" =>
              LET d == denies(_policy, request).out IN
              /\ d.kind = "throw" => outcome = d
              /\ outcome.kind = "return" => d.kind = "return"
        /\ (op = "denies" /\ outcome.kind = "throw")
              => permits(_policy, request).out = outcome

\* permits of a role array raises the error that denies of the same request
\* raises, and its permit-mode interrogations alone would have returned
C25_Witness ==
    /\ Called("permits") /\ request.role.isArray
    /\ Len(request.role.names) = 2
    /\ outcome.kind = "throw"
    /\ denies(_policy, request).out = outcome
    /\ \A i \in 1..2 :
          _permits(_findEntries(_policy, request.role.names[i], request.clazz, request.method),
                   request.role.names[i], request.clazz, request.method,
                   request.data).out.kind = "return"

\* ------------------------------------------------------------------- C26
\* the roles of the sequence names, each once and in a fixed order
Canonical(names) ==
    LET present == {names[i] : i \in 1..Len(names)} IN
    (IF RoleM \in present THEN <<RoleM>> ELSE <<>>)
    \o (IF RoleTM \in present THEN <<RoleTM>> ELSE <<>>)

\* the request of the call with the roles in the sequence names
WithRoles(names) ==
    Request(ArrayRole(names), request.clazz, request.method, request.data)

\* what the operation of the call returns for the request req
SameCallOn(req) ==
    IF op = "denies" THEN denies(_policy, req).out ELSE permits(_policy, req).out

\* C26: a call with a role array that raises no error returns what the same
\* call returns for the roles of the array taken once each in a fixed order,
\* so two arrays with the same set of roles, however ordered and with
\* whatever repetitions, get the same result; and the array [r] gets the
\* result of the single role r, and the single role r that of [r].
C26_DependsOnRoleSet ==
    (pc = "done" /\ request.role.names # <<>>) =>
        /\ (request.role.isArray /\ outcome.kind = "return")
              => /\ SameCallOn(WithRoles(Canonical(request.role.names))) = outcome
                 /\ Len(request.role.names) = 1 => SameCallOn(ForRole(TheRole)) = outcome
        /\ (~request.role.isArray /\ outcome.kind = "return")
              => SameCallOn(WithRoles(<<TheRole>>)) = outcome

\* denies of an array whose second role alone is denied and whose roles are
\* not in the fixed order
C26_Witness ==
    /\ Called("denies") /\ request.role.isArray
    /\ Len(request.role.names) > 1
    /\ Canonical(request.role.names) # request.role.names
    /\ DeniesOfRole(1).out = Ret(FALSE)
    /\ DeniesOfRole(2).out = Ret(TRUE)
    /\ outcome = Ret(TRUE)
====
